---- MODULE Spec2Model ----
(***************************************************************************)
(* A model of sa_video_converter.py: the conversion of a SuperAnnotate      *)
(* video export into a frame-sampled YOLOv5 data set.                       *)
(*                                                                          *)
(* Conventions                                                              *)
(*  - A Python dict is a sequence of [key, value] records with distinct     *)
(*    keys, in insertion order (dicts iterate in insertion order).          *)
(*  - A Python float that the code computes by division is an exact         *)
(*    fraction <<numerator, denominator>> with a positive denominator; the  *)
(*    inputs are chosen so that the comparisons the code makes are decided  *)
(*    the same way in double precision.                                     *)
(*  - fps is a fraction [num, den]; times in the annotation are integers    *)
(*    (microseconds).                                                       *)
(*  - A directory under the output folder is the tuple of its path          *)
(*    components, a file is [dir, name] with name <<video index, frame>>.   *)
(*  - The annotation files are well formed: every instance names a class    *)
(*    of classes.json, and every frame of a video can be read.              *)
(***************************************************************************)
EXTENDS Integers, Sequences, FiniteSets, TLC

VARIABLES
    pc,            \* position of the run
    split,         \* argument: the split dictionary
    capture_rate,  \* argument: seconds between two samples
    classes,       \* classes.json as read by convert_class_id
    CLASSES_DICT,  \* the global name -> index dictionary
    json_files,    \* number of annotation files listed in the folder
    index,         \* 0-based index of the annotation file being converted
    video,         \* the open video and its annotation
    frame_list,    \* sampled frame numbers of the open video
    pos,           \* 1-based position in frame_list of the next frame
    split_folder,  \* bucket chosen for the frame last processed
    image_filename, \* image path of the frame last processed
    label_filename, \* label path of the frame last processed
    dirs,          \* directories that exist under the output folder
    images,        \* image files written
    labels,        \* label files written
    label_lines,   \* lines of the label file last written
    data_yaml,     \* the manifest
    err            \* the error that ended the run, "" if none

vars == <<pc, split, capture_rate, classes, CLASSES_DICT, json_files, index,
          video, frame_list, pos, split_folder, image_filename,
          label_filename, dirs, images, labels, label_lines, data_yaml, err>>

----------------------------------------------------------------------------
(* Bounds of the model *)

MaxClasses == 2
MaxVideos == 1
MaxLength == 2
MaxTime == 2
MaxKeyframes == 3
MaxCoord == 3
MaxRate == 2
MaxFrames == 6
MaxKeys == 3
MaxFpsNum == 3

(* Program constants *)

Micro == 1000000
TotalPercent == 100

----------------------------------------------------------------------------
(* Python dicts *)

DictKeys(d) == [i \in 1..Len(d) |-> d[i].key]

DictHas(d, k) == \E i \in 1..Len(d) : d[i].key = k

DictGet(d, k) == d[CHOOSE i \in 1..Len(d) : d[i].key = k].value

DictSet(d, k, v) ==
    IF DictHas(d, k)
    THEN [i \in 1..Len(d) |-> IF d[i].key = k THEN [key |-> k, value |-> v] ELSE d[i]]
    ELSE Append(d, [key |-> k, value |-> v])

RECURSIVE DictSum(_)
DictSum(d) == IF d = <<>> THEN 0 ELSE Head(d).value + DictSum(Tail(d))

(* Fractions *)

RInt(n) == <<n, 1>>
RDiv(r, n) == <<r[1], r[2] * n>>
RMul(r, n) == <<r[1] * n, r[2]>>
RLeq(a, b) == a[1] * b[2] <= b[1] * a[2]

SeqRange(q) == {q[i] : i \in 1..Len(q)}

RECURSIVE Flatten(_)
Flatten(ss) == IF ss = <<>> THEN <<>> ELSE Head(ss) \o Flatten(Tail(ss))

----------------------------------------------------------------------------
(* convert_class_id: {item["name"]: index for index, item in enumerate(classes)} *)

RECURSIVE convert_class_id_upto(_, _)
convert_class_id_upto(cls, n) ==
    IF n = 0 THEN <<>>
    ELSE DictSet(convert_class_id_upto(cls, n - 1), cls[n].name, n - 1)

convert_class_id(cls) == convert_class_id_upto(cls, Len(cls))

----------------------------------------------------------------------------
(* split_dataset *)

\* the loop with "rand_num < current_percentage"
RECURSIVE split_loop_strict(_, _, _, _)
split_loop_strict(d, i, cur, rand_num) ==
    IF i > Len(d) THEN "None"
    ELSE IF rand_num < cur + d[i].value THEN d[i].key
    ELSE split_loop_strict(d, i + 1, cur + d[i].value, rand_num)

\* the loop of lines 111-115 from item i on, current_percentage being cur;
\* "None" when the loop ends without a return
RECURSIVE split_loop(_, _, _, _)
split_loop(d, i, cur, rand_num) ==
    IF i > Len(d) THEN "None"
    ELSE IF rand_num <= cur + d[i].value THEN d[i].key
    ELSE split_loop(d, i + 1, cur + d[i].value, rand_num)

split_raises(d) == DictSum(d) # TotalPercent

\* result of split_dataset when random.randint draws rand_num
split_dataset(d, rand_num) == split_loop(d, 1, 0, rand_num)

----------------------------------------------------------------------------
(* convert_from_json: sampling and timestamps *)

\* frame_no % (fps * capture_rate) == 0, fps being the fraction fps.num / fps.den
is_sampled(frame_no, fps, rate) == (frame_no * fps.den) % (fps.num * rate) = 0

\* [frame_no for frame_no in range(length) if frame_no % (fps * capture_rate) == 0]
sample_frames(length, fps, rate) ==
    SelectSeq([i \in 1..length |-> i - 1], LAMBDA f : is_sampled(f, fps, rate))

\* (frame_no / fps) * 1000000
frame_timestamp(frame_no, fps) == RMul(<<frame_no * fps.den, fps.num>>, Micro)

----------------------------------------------------------------------------
(* _convert_timestamp and save_yolo_txt *)

\* the sub-windows, each with the box of the keyframe that ends it
_convert_timestamp_end_box(timestamps) ==
    [i \in 1..(Len(timestamps) - 1) |->
        [start |-> timestamps[i].timestamp,
         end |-> timestamps[i + 1].timestamp,
         points |-> timestamps[i + 1].points]]

_convert_timestamp(timestamps) ==
    [i \in 1..(Len(timestamps) - 1) |->
        [start |-> timestamps[i].timestamp,
         end |-> timestamps[i + 1].timestamp,
         points |-> timestamps[i].points]]

\* lo <= timestamp <= hi, lo and hi integers and timestamp a fraction
within(lo, timestamp, hi) == RLeq(RInt(lo), timestamp) /\ RLeq(timestamp, RInt(hi))

\* the label line with shape read as <<width, height, channels>>
yolo_format_swapped(cls, points, shape) ==
    LET frame_height == shape[2]
        frame_width == shape[1]
    IN [cls |-> cls,
        cx |-> RDiv(RDiv(RInt(points.x1 + points.x2), 2), frame_width),
        cy |-> RDiv(RDiv(RInt(points.y1 + points.y2), 2), frame_height),
        w |-> RDiv(RInt(points.x2 - points.x1), frame_width),
        h |-> RDiv(RInt(points.y2 - points.y1), frame_height)]

\* the label line of lines 190-198; shape is <<height, width, channels>>
yolo_format(cls, points, shape) ==
    LET frame_height == shape[1]
        frame_width == shape[2]
    IN [cls |-> cls,
        cx |-> RDiv(RDiv(RInt(points.x1 + points.x2), 2), frame_width),
        cy |-> RDiv(RDiv(RInt(points.y1 + points.y2), 2), frame_height),
        w |-> RDiv(RInt(points.x2 - points.x1), frame_width),
        h |-> RDiv(RInt(points.y2 - points.y1), frame_height)]

\* lines 188-200: the lines one parameter's sub-windows write
anno_lines(dict, instance, timestamps_anno, timestamp, shape) ==
    LET hit == SelectSeq(timestamps_anno,
                         LAMBDA anno : within(anno.start, timestamp, anno.end))
    IN [i \in 1..Len(hit) |->
           yolo_format(DictGet(dict, instance.meta.className), hit[i].points, shape)]

\* lines 186-200: the lines one parameter writes
parameter_lines(dict, instance, parameter, timestamp, shape) ==
    IF within(parameter.start, timestamp, parameter.end)
    THEN anno_lines(dict, instance, _convert_timestamp(parameter.timestamps),
                    timestamp, shape)
    ELSE <<>>

\* lines 185-200: the lines one instance writes
instance_lines(dict, instance, timestamp, shape) ==
    Flatten([k \in 1..Len(instance.parameters) |->
                parameter_lines(dict, instance, instance.parameters[k], timestamp, shape)])

\* the content of the label file
save_yolo_txt(dict, instances, timestamp, shape) ==
    Flatten([k \in 1..Len(instances) |->
                instance_lines(dict, instances[k], timestamp, shape)])

----------------------------------------------------------------------------
(* _valid_dir and create_data_yaml *)

Root == <<>>

\* the directories that exist after _valid_dir(output_name, split)
_valid_dir(existing, d) ==
    existing \cup {Root}
        \cup (IF d # <<>>
              THEN {<<d[i].key, sub>> : i \in 1..Len(d), sub \in {"labels", "images"}}
              ELSE {})

NoYaml == [written |-> FALSE, names |-> <<>>, nc |-> 0, images |-> <<>>]

\* the manifest without the test path
create_data_yaml_no_test(dict) ==
    [written |-> TRUE,
     names |-> DictKeys(dict),
     nc |-> Len(dict),
     images |-> << <<"train", "images">>, <<"val", "images">> >>]

\* the manifest: the names, nc and the three image paths, in file order
create_data_yaml(dict) ==
    [written |-> TRUE,
     names |-> DictKeys(dict),
     nc |-> Len(dict),
     images |-> << <<"test", "images">>, <<"train", "images">>, <<"val", "images">> >>]

----------------------------------------------------------------------------
(* Inputs *)

SeqsUpTo(S, n) == UNION {[1..k -> S] : k \in 0..n}

KV(k, v) == [key |-> k, value |-> v]

Names == {"a", "b"}

ClassLists == SeqsUpTo([name : Names], MaxClasses)

Times == {s * Micro : s \in 0..MaxTime}

\* the box of the i-th keyframe of a parameter: a different box for each i
BoxAt(i) == [x1 |-> 0, y1 |-> 0, x2 |-> 1, y2 |-> i]

Keyframes(ts) == [i \in 1..Len(ts) |-> [timestamp |-> ts[i], points |-> BoxAt(i)]]

\* parameters as SuperAnnotate exports them: keyframes in increasing time,
\* spanning the parameter's [start, end]
WellFormedParams ==
    {[start |-> ts[1], end |-> ts[Len(ts)], timestamps |-> Keyframes(ts)] :
        ts \in {t \in SeqsUpTo(Times, MaxKeyframes) :
                   /\ Len(t) >= 1
                   /\ \A i \in 1..(Len(t) - 1) : t[i] < t[i + 1]}}

\* the parameters of a run: two and three keyframes
RunParams ==
    {[start |-> ts[1], end |-> ts[Len(ts)], timestamps |-> Keyframes(ts)] :
        ts \in {<<0, Micro>>, <<0, Micro, 2 * Micro>>}}

Instance(name, params) == [meta |-> [className |-> name], parameters |-> params]

\* the instances of an annotation file of a run: none, or one instance of a
\* class of the class list
RunInstances(dict) ==
    {<<>>} \cup {<<Instance(dict[i].key, <<p>>)>> : i \in 1..Len(dict), p \in RunParams}

Fps(n, d) == [num |-> n, den |-> d]

RunFps == {Fps(1, 1), Fps(1, 2)}

RunShape == <<2, 3, 3>>

RunRates == {1, 2}

\* the split dictionaries of a run: none, the script's own, and variations
RunSplits ==
    { <<>>,
      <<KV("train", 70), KV("test", 10), KV("val", 20)>>,
      <<KV("train", 100)>>,
      <<KV("train", 70), KV("val", 20)>>,
      <<KV("train", 60), KV("extra", 40)>> }

NoVideo == [length |-> 0, fps |-> Fps(1, 1), shape |-> RunShape, instances |-> <<>>]

NoFile == [dir |-> <<"-">>, name |-> <<>>]

SplitError == "The sum of split must be 100."

----------------------------------------------------------------------------
(* The run of generate_yolo *)

Init ==
    /\ pc = "start"
    /\ split \in RunSplits
    /\ capture_rate \in RunRates
    /\ classes = <<>>
    /\ CLASSES_DICT = <<>>
    /\ json_files = 0
    /\ index = 0
    /\ video = NoVideo
    /\ frame_list = <<>>
    /\ pos = 1
    /\ split_folder = "-"
    /\ image_filename = NoFile
    /\ label_filename = NoFile
    /\ dirs = {}
    /\ images = {}
    /\ labels = {}
    /\ label_lines = <<>>
    /\ data_yaml = NoYaml
    /\ err = ""

\* lines 34-36: read the class list, list the annotation files, make the folders
Setup ==
    /\ pc = "start"
    /\ \E cls \in ClassLists :
          /\ classes' = cls
          /\ CLASSES_DICT' = convert_class_id(cls)
    /\ \E n \in 0..MaxVideos : json_files' = n
    /\ dirs' = _valid_dir(dirs, split)
    /\ pc' = "videos"
    /\ UNCHANGED <<split, capture_rate, index, video, frame_list, pos, split_folder,
                   image_filename, label_filename, images, labels, label_lines,
                   data_yaml, err>>

\* lines 129-140: open the next annotation file and its video, sample the frames
OpenVideo ==
    /\ pc = "videos"
    /\ index < json_files
    /\ \E length \in 0..MaxLength, fps \in RunFps, instances \in RunInstances(CLASSES_DICT) :
          /\ video' = [length |-> length, fps |-> fps, shape |-> RunShape,
                       instances |-> instances]
          /\ frame_list' = sample_frames(length, fps, capture_rate)
    /\ pos' = 1
    /\ pc' = "frames"
    /\ UNCHANGED <<split, capture_rate, classes, CLASSES_DICT, json_files, index,
                   split_folder, image_filename, label_filename, dirs, images, labels,
                   label_lines, data_yaml, err>>

\* lines 143-149 for the frame at pos, the bucket being folder
WriteFrame(folder) ==
    LET frame_no == frame_list[pos]
        image == [dir |-> <<folder, "images">>, name |-> <<index, frame_no>>]
        label == [dir |-> <<folder, "labels">>, name |-> <<index, frame_no>>]
        lines == save_yolo_txt(CLASSES_DICT, video.instances,
                               frame_timestamp(frame_no, video.fps), video.shape)
    IN /\ split_folder' = folder
       /\ image_filename' = image
       /\ label_filename' = label
       \* cv2.imwrite returns False when the directory is missing
       /\ images' = IF image.dir \in dirs THEN images \cup {image} ELSE images
       \* open(label_filename, 'w') raises when the directory is missing
       /\ IF label.dir \in dirs
          THEN /\ labels' = labels \cup {label}
               /\ label_lines' = lines
               /\ pos' = pos + 1
               /\ UNCHANGED <<pc, err>>
          ELSE /\ pc' = "failed"
               /\ err' = "FileNotFoundError"
               /\ UNCHANGED <<labels, label_lines, pos>>

\* lines 141-149: one iteration of the loop over frame_list
ProcessFrame ==
    /\ pc = "frames"
    /\ pos <= Len(frame_list)
    /\ \/ /\ split # <<>>
          /\ split_raises(split)
          /\ pc' = "failed"
          /\ err' = SplitError
          /\ UNCHANGED <<split_folder, image_filename, label_filename, images,
                         labels, label_lines, pos>>
       \/ /\ split # <<>>
          /\ ~split_raises(split)
          \* random.randint(1, total_percentage) draws any of 1..100
          /\ \E folder \in {split_dataset(split, rand_num) : rand_num \in 1..TotalPercent} :
                WriteFrame(folder)
       \/ /\ split = <<>>
          /\ WriteFrame("")
    /\ UNCHANGED <<split, capture_rate, classes, CLASSES_DICT, json_files, index,
                   video, frame_list, dirs, data_yaml>>

\* the loop over frame_list ends and convert_from_json returns, its locals
\* gone: back to the loop of lines 37-39
CloseVideo ==
    /\ pc = "frames"
    /\ pos > Len(frame_list)
    /\ index' = index + 1
    /\ pc' = "videos"
    /\ video' = NoVideo
    /\ frame_list' = <<>>
    /\ pos' = 1
    /\ split_folder' = "-"
    /\ image_filename' = NoFile
    /\ label_filename' = NoFile
    /\ UNCHANGED <<split, capture_rate, classes, CLASSES_DICT, json_files,
                   dirs, images, labels, label_lines, data_yaml, err>>

\* lines 40-42: the manifest, when a split was given
Finish ==
    /\ pc = "videos"
    /\ index >= json_files
    /\ data_yaml' = IF split # <<>> THEN create_data_yaml(CLASSES_DICT) ELSE data_yaml
    /\ pc' = "done"
    /\ UNCHANGED <<split, capture_rate, classes, CLASSES_DICT, json_files, index,
                   video, frame_list, pos, split_folder, image_filename,
                   label_filename, dirs, images, labels, label_lines, err>>

Next == Setup \/ OpenVideo \/ ProcessFrame \/ CloseVideo \/ Finish

Spec == Init /\ [][Next]_vars

----------------------------------------------------------------------------
(* split_dataset on its own: every split dictionary, every draw *)

SplitKeyNames == <<"train", "test", "val", "extra", "spare">>

Percents == {0, 1, 10, 30, 60, 69, 90, 99, 100}

SplitDicts ==
    UNION {{[i \in 1..n |-> KV(SplitKeyNames[i], v[i])] : v \in [1..n -> Percents]} :
              n \in 1..MaxKeys}

\* what the other specifications leave alone
RunIdle ==
    /\ classes = <<>>
    /\ json_files = 0
    /\ index = 0
    /\ pos = 1
    /\ split_folder = "-"
    /\ image_filename = NoFile
    /\ label_filename = NoFile
    /\ dirs = {}
    /\ images = {}
    /\ labels = {}
    /\ label_lines = <<>>
    /\ data_yaml = NoYaml
    /\ err = ""

InitSplit ==
    /\ pc = "split_dataset"
    /\ split \in SplitDicts
    /\ capture_rate = 1
    /\ CLASSES_DICT = <<>>
    /\ video = NoVideo
    /\ frame_list = <<>>
    /\ RunIdle

\* lines 107-109: the sum is not 100
SplitRaise ==
    /\ pc = "split_dataset"
    /\ split_raises(split)
    /\ pc' = "failed"
    /\ err' = SplitError
    /\ UNCHANGED <<split, capture_rate, classes, CLASSES_DICT, json_files, index,
                   video, frame_list, pos, split_folder, image_filename,
                   label_filename, dirs, images, labels, label_lines, data_yaml>>

\* lines 110-115: draw rand_num and return the key it selects
SplitReturn ==
    /\ pc = "split_dataset"
    /\ ~split_raises(split)
    /\ \E rand_num \in 1..TotalPercent : split_folder' = split_dataset(split, rand_num)
    /\ pc' = "returned"
    /\ UNCHANGED <<split, capture_rate, classes, CLASSES_DICT, json_files, index,
                   video, frame_list, pos, image_filename, label_filename, dirs,
                   images, labels, label_lines, data_yaml, err>>

NextSplit == SplitRaise \/ SplitReturn

SpecSplit == InitSplit /\ [][NextSplit]_vars

----------------------------------------------------------------------------
(* The sampling of convert_from_json on its own *)

SampleFps == {Fps(n, d) : n \in 1..MaxFpsNum, d \in {1, 2}}

InitSample ==
    /\ pc = "open"
    /\ split = <<>>
    /\ capture_rate \in 1..MaxRate
    /\ CLASSES_DICT = <<>>
    /\ \E length \in 0..MaxFrames, fps \in SampleFps :
          video = [length |-> length, fps |-> fps, shape |-> RunShape, instances |-> <<>>]
    /\ frame_list = <<>>
    /\ RunIdle

\* line 139
SampleFrames ==
    /\ pc = "open"
    /\ frame_list' = sample_frames(video.length, video.fps, capture_rate)
    /\ pc' = "frames"
    /\ UNCHANGED <<split, capture_rate, classes, CLASSES_DICT, json_files, index,
                   video, pos, split_folder, image_filename, label_filename, dirs,
                   images, labels, label_lines, data_yaml, err>>

\* line 141: the loop takes the next frame of frame_list
NextFrame ==
    /\ pc = "frames"
    /\ pos <= Len(frame_list)
    /\ pos' = pos + 1
    /\ UNCHANGED <<pc, split, capture_rate, classes, CLASSES_DICT, json_files, index,
                   video, frame_list, split_folder, image_filename, label_filename,
                   dirs, images, labels, label_lines, data_yaml, err>>

NextSample == SampleFrames \/ NextFrame

SpecSample == InitSample /\ [][NextSample]_vars

----------------------------------------------------------------------------
(* save_yolo_txt on its own *)

LabelFps == {Fps(1, 1), Fps(2, 1), Fps(1, 2)}

\* one parameter, its [start, end] and its keyframe times in any order
AnyParams ==
    {[start |-> s, end |-> e, timestamps |-> Keyframes(ts)] :
        s \in Times, e \in Times, ts \in SeqsUpTo(Times, MaxKeyframes)}

Points == [x1 : 0..MaxCoord, y1 : 0..MaxCoord, x2 : 0..MaxCoord, y2 : 0..MaxCoord]

Shapes == {<<h, w, 3>> : h \in 1..MaxCoord, w \in 1..MaxCoord}

\* a parameter of two keyframes, the first with the given box
BoxParam(b) ==
    [start |-> 0, end |-> MaxTime * Micro,
     timestamps |-> << [timestamp |-> 0, points |-> b],
                       [timestamp |-> MaxTime * Micro, points |-> BoxAt(2)] >>]

LabelVideo(length, fps, shape, instances) ==
    [length |-> length, fps |-> fps, shape |-> shape, instances |-> instances]

\* frames enough to pass the last annotated time at 2 frames per second
LabelLength == 2 * MaxTime + 2

LabelVideos ==
    \* one instance of one parameter of any kind
    {LabelVideo(LabelLength, fps, RunShape, <<Instance("a", <<p>>)>>) :
        fps \in LabelFps, p \in AnyParams}
    \* one instance of two parameters
    \cup {LabelVideo(LabelLength, fps, RunShape, <<Instance("a", <<p, q>>)>>) :
        fps \in LabelFps, p \in WellFormedParams, q \in WellFormedParams}
    \* two instances
    \cup {LabelVideo(LabelLength, fps, RunShape, <<Instance("a", <<p>>), Instance(n, <<q>>)>>) :
        fps \in LabelFps, n \in Names, p \in WellFormedParams, q \in WellFormedParams}
    \* every box on every frame shape, at the first frame
    \cup {LabelVideo(1, Fps(1, 1), shape, <<Instance("b", <<BoxParam(b)>>)>>) :
        shape \in Shapes, b \in Points}

InitLabel ==
    /\ pc = "frames"
    /\ split = <<>>
    /\ capture_rate = 1
    /\ CLASSES_DICT = convert_class_id(<<[name |-> "a"], [name |-> "b"]>>)
    /\ video \in LabelVideos
    /\ frame_list = <<>>
    /\ RunIdle

\* lines 148-149 for any frame of the video
SaveLabel ==
    /\ pc = "frames"
    /\ \E frame_no \in 0..(video.length - 1) :
          /\ frame_list' = <<frame_no>>
          /\ label_lines' = save_yolo_txt(CLASSES_DICT, video.instances,
                                          frame_timestamp(frame_no, video.fps), video.shape)
    /\ pc' = "saved"
    /\ UNCHANGED <<split, capture_rate, classes, CLASSES_DICT, json_files, index,
                   video, pos, split_folder, image_filename, label_filename, dirs,
                   images, labels, data_yaml, err>>

NextLabel == SaveLabel

SpecLabel == InitLabel /\ [][NextLabel]_vars

----------------------------------------------------------------------------
(* Claims about the run of generate_yolo, checked under Spec *)

\* C3: a run given a non-empty split dictionary whose percentages do not sum
\* to 100 never completes normally, and when it fails it fails with the error
\* 'The sum of split must be 100.'.
C3_SplitValidation ==
    (split # <<>> /\ split_raises(split)) =>
        /\ pc # "done"
        /\ pc = "failed" => err = SplitError

\* C5: the image and the label of a sampled frame are written to the images
\* and labels subfolders of the same bucket, the bucket is a key of the split
\* dictionary, and both subfolders were created by _valid_dir.
C5_SameBucket ==
    label_filename # NoFile =>
        /\ DictHas(split, split_folder)
        /\ image_filename.dir = <<split_folder, "images">>
        /\ label_filename.dir = <<split_folder, "labels">>
        /\ image_filename.name = label_filename.name
        /\ {image_filename.dir, label_filename.dir} \subseteq _valid_dir({}, split)
        /\ image_filename \in images
        /\ label_filename \in labels

\* the buckets the run wrote an image or a label into
WrittenBuckets == {f.dir[1] : f \in images \cup labels}

ManifestListsNames ==
    /\ \A i \in 1..Len(classes) : classes[i].name \in SeqRange(data_yaml.names)
    /\ data_yaml.nc = Len(data_yaml.names)

\* C6 as claimed: every run that completes without error has written the
\* manifest, which lists every class name, their number as nc, and an images
\* path for each bucket the run wrote samples into.
C6_ManifestOriginal ==
    pc = "done" =>
        /\ data_yaml.written
        /\ ManifestListsNames
        /\ \A b \in WrittenBuckets : <<b, "images">> \in SeqRange(data_yaml.images)

\* C6 as amended: every run given a non-empty split dictionary that completes
\* without error has written the manifest, which lists every class name once,
\* their number as nc, and the images paths of test, train and val, in that
\* order; these include the path of every bucket written into when the keys
\* of the split dictionary are among train, test and val.
C6_Manifest ==
    (pc = "done" /\ split # <<>>) =>
        /\ data_yaml.written
        /\ ManifestListsNames
        /\ \A i, j \in 1..Len(data_yaml.names) :
              data_yaml.names[i] = data_yaml.names[j] => i = j
        /\ data_yaml.images = << <<"test", "images">>, <<"train", "images">>,
                                 <<"val", "images">> >>
        /\ SeqRange(DictKeys(split)) \subseteq {"train", "test", "val"} =>
              \A b \in WrittenBuckets : <<b, "images">> \in SeqRange(data_yaml.images)

\* a run over two classes has completed after writing samples into test and
\* into another bucket
C6_Witness ==
    /\ pc = "done"
    /\ split # <<>>
    /\ data_yaml.written
    /\ data_yaml.nc = 2
    /\ "test" \in WrittenBuckets
    /\ Cardinality(WrittenBuckets) >= 2

\* C8: convert_class_id maps the class at position i of the class list,
\* counted from 0, to index i, so that the indices of a list of n classes are
\* exactly 0 .. n-1.
C8_ClassIndexing ==
    pc # "start" =>
        /\ \A i \in 1..Len(classes) : DictGet(CLASSES_DICT, classes[i].name) = i - 1
        /\ {CLASSES_DICT[i].value : i \in 1..Len(CLASSES_DICT)} = 0..(Len(classes) - 1)

\* C10: every class index written in a label line is in 0 .. nc-1 for the nc
\* of the manifest, and the name the manifest lists at that position is the
\* className of the instance the line was written for.
C10_LabelIndexInManifest ==
    /\ (pc = "done" /\ data_yaml.written) =>
          \A line \in SeqRange(label_lines) : line.cls \in 0..(data_yaml.nc - 1)
    /\ (pc = "frames" /\ label_filename # NoFile /\ label_filename \in labels) =>
          LET manifest == create_data_yaml(CLASSES_DICT)
              t == frame_timestamp(label_filename.name[2], video.fps)
          IN \A k \in 1..Len(video.instances) :
                \A line \in SeqRange(instance_lines(CLASSES_DICT, video.instances[k],
                                                    t, video.shape)) :
                   /\ line.cls \in 0..(manifest.nc - 1)
                   /\ manifest.names[line.cls + 1] = video.instances[k].meta.className

----------------------------------------------------------------------------
(* The claim about sampling, checked under SpecSample *)

\* C7: frame 0 is sampled when the video has a frame, the sampled frames are
\* in increasing order, two consecutive sampled frames are fps * capture_rate
\* frames apart, and every frame number k * fps * capture_rate below length is
\* sampled.
C7_FixedCadence ==
    pc = "frames" =>
        LET step_num == video.fps.num * capture_rate
            step_den == video.fps.den
        IN /\ video.length > 0 => (frame_list # <<>> /\ frame_list[1] = 0)
           /\ \A i \in 1..(Len(frame_list) - 1) :
                 /\ frame_list[i] < frame_list[i + 1]
                 /\ (frame_list[i + 1] - frame_list[i]) * step_den = step_num
           /\ \A f \in 0..(video.length - 1) :
                 (\E k \in 0..f : k * step_num = f * step_den) => f \in SeqRange(frame_list)

----------------------------------------------------------------------------
(* Claims about split_dataset, checked under SpecSplit *)

NonNegative(d) == \A i \in 1..Len(d) : d[i].value >= 0

\* the sum of the percentages of the first i items
RECURSIVE Cumulative(_, _)
Cumulative(d, i) == IF i = 0 THEN 0 ELSE Cumulative(d, i - 1) + d[i].value

\* C4: for a split dictionary of non-negative percentages that sum to 100,
\* split_dataset returns a key of the dictionary, never one whose percentage
\* is 0, and each key is selected by exactly its percentage of the draws
\* 1..100, the keys taking consecutive ranges of draws in dictionary order.
C4_WeightedSplit ==
    (NonNegative(split) /\ DictSum(split) = TotalPercent /\ pc \in {"split_dataset", "returned"})
    => /\ pc = "returned" =>
            /\ DictHas(split, split_folder)
            /\ DictGet(split, split_folder) # 0
       /\ \A i \in 1..Len(split) :
            /\ Cardinality({r \in 1..TotalPercent : split_dataset(split, r) = split[i].key})
                  = split[i].value
            /\ \A r \in 1..TotalPercent :
                  split_dataset(split, r) = split[i].key
                      <=> (Cumulative(split, i - 1) < r /\ r <= Cumulative(split, i))

\* a three-key dictionary with a 0 percentage in the middle has returned its last key
C4_Witness ==
    /\ pc = "returned"
    /\ Len(split) = 3
    /\ DictSum(split) = TotalPercent
    /\ split[1].value > 0
    /\ split[2].value = 0
    /\ split_folder = split[3].key

----------------------------------------------------------------------------
(* Claims about save_yolo_txt, checked under SpecLabel *)

\* the timestamp of the frame the label was saved for
SavedTimestamp == frame_timestamp(frame_list[1], video.fps)

\* lo <= t <= hi for an exact fraction t = <<n, d>>, d > 0
Covers(lo, hi, t) == lo * t[2] <= t[1] /\ t[1] <= hi * t[2]

\* the (parameter, keyframe) pairs of an instance whose parameter and whose
\* sub-window from keyframe i to keyframe i + 1 both cover t
Covering(instance, t) ==
    {<<p, i>> \in (1..Len(instance.parameters)) \X (1..MaxKeyframes + 1) :
        LET parameter == instance.parameters[p]
            ts == parameter.timestamps
        IN /\ i + 1 <= Len(ts)
           /\ Covers(parameter.start, parameter.end, t)
           /\ Covers(ts[i].timestamp, ts[i + 1].timestamp, t)}

CoveringBox(instance, c) == instance.parameters[c[1]].timestamps[c[2]].points

\* the label line's box values are those of box b on a frame of the given shape
LineOfBox(line, b, shape) ==
    LET H == shape[1]
        W == shape[2]
    IN /\ line.cx[1] * (2 * W) = (b.x1 + b.x2) * line.cx[2]
       /\ line.cy[1] * (2 * H) = (b.y1 + b.y2) * line.cy[2]
       /\ line.w[1] * W = (b.x2 - b.x1) * line.w[2]
       /\ line.h[1] * H = (b.y2 - b.y1) * line.h[2]

\* C1: a label line is written for an instance exactly when one of its
\* parameters covers the frame timestamp and a sub-window between two
\* consecutive keyframes of that parameter covers it too; the boxes written
\* are those of the first keyframe of each such sub-window, so nothing is
\* written outside every parameter or for a parameter of fewer than two
\* keyframes.
C1_IntervalLookup ==
    pc = "saved" =>
        LET t == SavedTimestamp
            written(k) == instance_lines(CLASSES_DICT, video.instances[k], t, video.shape)
        IN /\ label_lines = Flatten([k \in 1..Len(video.instances) |-> written(k)])
           /\ \A k \in 1..Len(video.instances) :
                LET instance == video.instances[k]
                IN /\ (written(k) # <<>>) <=> (Covering(instance, t) # {})
                   /\ \A line \in SeqRange(written(k)) :
                         \E c \in Covering(instance, t) :
                            LineOfBox(line, CoveringBox(instance, c), video.shape)
                   /\ \A c \in Covering(instance, t) :
                         \E line \in SeqRange(written(k)) :
                            LineOfBox(line, CoveringBox(instance, c), video.shape)

\* of two instances one wrote a line and the other, whose parameter does not
\* cover the timestamp, wrote none
C1_Witness ==
    /\ pc = "saved"
    /\ Len(video.instances) = 2
    /\ Len(label_lines) = 1
    /\ Covering(video.instances[1], SavedTimestamp) # {}
    /\ ~Covers(video.instances[2].parameters[1].start,
               video.instances[2].parameters[1].end, SavedTimestamp)

InBounds(b, shape) ==
    /\ 0 <= b.x1 /\ b.x1 <= b.x2 /\ b.x2 <= shape[2]
    /\ 0 <= b.y1 /\ b.y1 <= b.y2 /\ b.y2 <= shape[1]

UnitInterval(r) == 0 <= r[1] /\ r[1] <= r[2]

\* C2: every label line carries (x1+x2)/2/W, (y1+y2)/2/H, (x2-x1)/W and
\* (y2-y1)/H of the box it was written for, W and H being the second and first
\* entry of the frame shape, and for a box within the frame all four lie in
\* [0, 1].
C2_Normalization ==
    pc = "saved" =>
        /\ \A line \in SeqRange(label_lines) :
              \E k \in 1..Len(video.instances) :
                 \E c \in Covering(video.instances[k], SavedTimestamp) :
                    LineOfBox(line, CoveringBox(video.instances[k], c), video.shape)
        /\ \A k \in 1..Len(video.instances) :
              \A c \in Covering(video.instances[k], SavedTimestamp) :
                 LET b == CoveringBox(video.instances[k], c)
                 IN \E line \in SeqRange(label_lines) :
                       /\ LineOfBox(line, b, video.shape)
                       /\ InBounds(b, video.shape) =>
                             /\ UnitInterval(line.cx) /\ UnitInterval(line.cy)
                             /\ UnitInterval(line.w) /\ UnitInterval(line.h)

\* a line was written for a box inside a frame that is wider than high, the
\* box neither empty nor the whole frame
C2_Witness ==
    /\ pc = "saved"
    /\ video.shape[2] > video.shape[1]
    /\ label_lines # <<>>
    /\ \E c \in Covering(video.instances[1], SavedTimestamp) :
          LET b == CoveringBox(video.instances[1], c)
          IN /\ InBounds(b, video.shape)
             /\ b.x1 > 0 /\ b.x2 > b.x1 /\ b.y2 > b.y1 /\ b.x2 = video.shape[2]

StrictlyIncreasing(ts) == \A i \in 1..(Len(ts) - 1) : ts[i].timestamp < ts[i + 1].timestamp

\* C9: a parameter whose keyframe timestamps are strictly increasing writes at
\* most one label line at any frame timestamp, also at the timestamp of an
\* interior keyframe.
C9_NoDuplicateBoxes ==
    pc = "saved" =>
        \A k \in 1..Len(video.instances) :
           \A p \in 1..Len(video.instances[k].parameters) :
              LET parameter == video.instances[k].parameters[p]
              IN StrictlyIncreasing(parameter.timestamps) =>
                    Len(parameter_lines(CLASSES_DICT, video.instances[k], parameter,
                                        SavedTimestamp, video.shape)) <= 1

====
